---------------------------- MODULE Spec2Model ----------------------------
(***************************************************************************)
(* External rootfs mount resolution of the runc v2 shim                    *)
(* (runtime/v2/runc/external_rootfs.go).                                   *)
(*                                                                         *)
(* Go strings are sequences of one-character strings, so that prefix       *)
(* tests, trimming and splitting are computed as the code computes them.   *)
(* The empty Go string is the empty sequence.                              *)
(***************************************************************************)
EXTENDS Integers, Sequences, FiniteSets, TLC

VARIABLES
    op,         \* the function that ran last ("none" before any call)
    env,        \* spec.Process.Env of the OCI spec file at configPath
    specOK,     \* whether oci.ReadSpec(configPath) succeeds
    mounts,     \* the caller's mount list (HookMounts, WriteMounts)
    configMap,  \* ReadExternalRootFSConfigFromENV's intermediate map
    cfg,        \* the decoded ExternalRootFSConfig
    parsed,     \* ParseOverlayOption's upperdir, lowerdir and workdir
    ret,        \* the returned value: [nil |-> BOOLEAN, list |-> mounts]
    err,        \* the returned error ("nil" when there is none)
    dirs,       \* directories that exist in the filesystem
    nodir,      \* paths at which a directory cannot be created
    descriptor, \* content of the file at each device descriptor path
    snapshots,  \* content of each mounts.json file
    wpath,      \* WriteMounts' path argument
    wlog        \* the os.WriteFile calls of the last call, in order

vars == <<op, env, specOK, mounts, configMap, cfg, parsed, ret, err, dirs, nodir,
          descriptor, snapshots, wpath, wlog>>

----------------------------------------------------------------------------
(* Bounds of the model.                                                    *)

MaxEnv == 2
MaxOptions == 3
MaxMounts == 2
MaxWriteMounts == 2

----------------------------------------------------------------------------
(* package strings                                                         *)

Upper == <<"A","B","C","D","E","F","G","H","I","J","K","L","M",
           "N","O","P","Q","R","S","T","U","V","W","X","Y","Z">>
Lower == <<"a","b","c","d","e","f","g","h","i","j","k","l","m",
           "n","o","p","q","r","s","t","u","v","w","x","y","z">>

\* The characters of the model in byte order.
Ascii == <<"\"", ",", ".", "/", "0", "4", ":", "=">> \o Upper
            \o <<"[", "\\", "]", "_">> \o Lower \o <<"{", "}">>

Ord(c) == CHOOSE i \in DOMAIN Ascii : Ascii[i] = c

ToUpper(c) ==
    IF \E i \in DOMAIN Lower : Lower[i] = c
    THEN Upper[CHOOSE i \in DOMAIN Lower : Lower[i] = c]
    ELSE c

HasPrefix(s, prefix) ==
    /\ Len(s) >= Len(prefix)
    /\ SubSeq(s, 1, Len(prefix)) = prefix

TrimPrefix(s, prefix) ==
    IF HasPrefix(s, prefix) THEN SubSeq(s, Len(prefix) + 1, Len(s)) ELSE s

\* Position of the first occurrence of sep in s, 0 when there is none.
Index(s, sep) ==
    LET hits == {i \in 1..(Len(s) - Len(sep) + 1) :
                    SubSeq(s, i, i + Len(sep) - 1) = sep}
    IN  IF hits = {} THEN 0
        ELSE CHOOSE i \in hits : \A j \in hits : i <= j

\* strings.SplitN for a non-empty sep: n > 0 at most n substrings (the last
\* is the unsplit remainder), n = 0 nothing, n < 0 all substrings.
RECURSIVE SplitN(_, _, _)
SplitN(s, sep, n) ==
    IF n = 0 THEN <<>>
    ELSE LET i == Index(s, sep)
         IN  IF n = 1 \/ i = 0 THEN <<s>>
             ELSE <<SubSeq(s, 1, i - 1)>>
                    \o SplitN(SubSeq(s, i + Len(sep), Len(s)), sep,
                              IF n > 0 THEN n - 1 ELSE n)

Split(s, sep) == SplitN(s, sep, -1)

\* Byte-wise lexicographic order of strings.
RECURSIVE Less(_, _)
Less(a, b) ==
    IF b = <<>> THEN FALSE
    ELSE IF a = <<>> THEN TRUE
    ELSE IF a[1] # b[1] THEN Ord(a[1]) < Ord(b[1])
    ELSE Less(Tail(a), Tail(b))

\* ASCII case folding, as encoding/json matches object keys to fields.
EqualFold(a, b) ==
    /\ Len(a) = Len(b)
    /\ \A i \in 1..Len(a) : ToUpper(a[i]) = ToUpper(b[i])

----------------------------------------------------------------------------
(* Constants of the source.                                                *)

ExternalRootFSPrefix ==
    <<"E","X","T","E","R","N","A","L","_","R","O","O","T","F","S","_">>
ExternalRootFSDriverOverlay == <<"o","v","e","r","l","a","y">>
ExternalRootFSDriverDevice == <<"d","e","v","i","c","e">>
MountConfigName == <<"m","o","u","n","t","s",".","j","s","o","n">>

\* The json tags of ExternalRootFSConfig, in field order.
ExternalRootFSConfig ==
    << [field |-> "Driver",
        tag |-> ExternalRootFSPrefix \o <<"D","R","I","V","E","R">>],
       [field |-> "OverlayLower",
        tag |-> ExternalRootFSPrefix
                  \o <<"O","V","E","R","L","A","Y","_","L","O","W","E","R",
                       "_","P","A","T","H">>],
       [field |-> "OverlayUpper",
        tag |-> ExternalRootFSPrefix
                  \o <<"O","V","E","R","L","A","Y","_","U","P","P","E","R",
                       "_","P","A","T","H">>],
       [field |-> "Device",
        tag |-> ExternalRootFSPrefix
                  \o <<"D","E","V","I","C","E","_","N","A","M","E">>],
       [field |-> "DeviceFSType",
        tag |-> ExternalRootFSPrefix
                  \o <<"D","E","V","I","C","E","_","F","S","T","Y","P","E">>],
       [field |-> "DeviceConfig",
        tag |-> ExternalRootFSPrefix
                  \o <<"D","E","V","I","C","E","_","C","O","N","F","I","G">>],
       [field |-> "DeviceMountOpts",
        tag |-> ExternalRootFSPrefix
                  \o <<"D","E","V","I","C","E","_","M","O","U","N","T","_",
                       "O","P","T","S">>] >>

\* The second variant of the file declares only the first five fields.
ExternalRootFSConfig2 == SubSeq(ExternalRootFSConfig, 1, 5)

\* The zero value of the struct; the second variant's absent fields stay "".
ZeroConfig ==
    [Driver |-> <<>>, OverlayLower |-> <<>>, OverlayUpper |-> <<>>,
     Device |-> <<>>, DeviceFSType |-> <<>>, DeviceConfig |-> <<>>,
     DeviceMountOpts |-> <<>>]

----------------------------------------------------------------------------
(* encoding/json, as far as the file uses it.                              *)

\* json.Marshal of a map[string]string: the members in sorted key order.
\* The strings of the model are ASCII without control characters, which
\* the encoding and the decoding after it give back unchanged.
RECURSIVE MarshalMap(_)
MarshalMap(m) ==
    IF DOMAIN m = {} THEN <<>>
    ELSE LET k == CHOOSE x \in DOMAIN m :
                     \A y \in DOMAIN m : x = y \/ Less(x, y)
             rest == [x \in DOMAIN m \ {k} |-> m[x]]
         IN  <<[key |-> k, value |-> m[k]]>> \o MarshalMap(rest)

\* The struct field an object key decodes into: the field whose tag equals
\* the key, else the first field whose tag matches it ignoring case, else
\* none (0), and the member is skipped.
FieldIndex(fields, key) ==
    LET exact == {i \in DOMAIN fields : fields[i].tag = key}
        fold == {i \in DOMAIN fields : EqualFold(fields[i].tag, key)}
        first(S) == CHOOSE i \in S : \A j \in S : i <= j
    IN  IF exact # {} THEN first(exact)
        ELSE IF fold # {} THEN first(fold)
        ELSE 0

\* json.Unmarshal of an object of string members into a struct value.
RECURSIVE UnmarshalStruct(_, _, _)
UnmarshalStruct(members, fields, v) ==
    IF members = <<>> THEN v
    ELSE LET i == FieldIndex(fields, Head(members).key)
             w == IF i = 0 THEN v
                  ELSE [v EXCEPT ![fields[i].field] = Head(members).value]
         IN  UnmarshalStruct(Tail(members), fields, w)

----------------------------------------------------------------------------
(* ReadExternalRootFSConfigFromENV                                         *)

EmptyMap == [k \in {} |-> <<>>]

\* The loop over spec.Process.Env that fills configMap.
RECURSIVE EnvConfigMap(_, _)
EnvConfigMap(e, m) ==
    IF e = <<>> THEN m
    ELSE IF ~HasPrefix(Head(e), ExternalRootFSPrefix)
         THEN EnvConfigMap(Tail(e), m)
    ELSE LET t == SplitN(Head(e), <<"=">>, -1)
         IN  IF Len(t) < 2 THEN EnvConfigMap(Tail(e), m)
             ELSE EnvConfigMap(Tail(e),
                    [k \in DOMAIN m \cup {t[1]} |->
                        IF k = t[1] THEN t[2] ELSE m[k]])

\* The whole function given that oci.ReadSpec succeeded.
ReadExternalRootFSConfigFromENV(e) ==
    UnmarshalStruct(MarshalMap(EnvConfigMap(e, EmptyMap)),
                    ExternalRootFSConfig, ZeroConfig)

ReadExternalRootFSConfigFromENV2(e) ==
    UnmarshalStruct(MarshalMap(EnvConfigMap(e, EmptyMap)),
                    ExternalRootFSConfig2, ZeroConfig)

----------------------------------------------------------------------------
(* mount.Mount and the values returned by HookMounts.                      *)

Mount(type, source, options) ==
    [Type |-> type, Source |-> source, Options |-> options]

\* A returned (non-nil) mount list, and the nil list of an error return.
Result(list) == [nil |-> FALSE, list |-> list]
NilResult == [nil |-> TRUE, list |-> <<>>]

----------------------------------------------------------------------------
(* ParseOverlayOption                                                      *)

upperdirKey == <<"u","p","p","e","r","d","i","r">>
lowerdirKey == <<"l","o","w","e","r","d","i","r">>
workdirKey == <<"w","o","r","k","d","i","r">>

\* The loop over m.Options; d holds upperdir, lowerdir and workdir so far.
RECURSIVE ParseOptions(_, _)
ParseOptions(options, d) ==
    IF options = <<>> THEN d
    ELSE LET option == Head(options)
             next ==
                IF HasPrefix(option, upperdirKey)
                THEN [d EXCEPT !.upperdir =
                        TrimPrefix(option, upperdirKey \o <<"=">>)]
                ELSE IF HasPrefix(option, lowerdirKey)
                THEN [d EXCEPT !.lowerdir =
                        TrimPrefix(option, lowerdirKey \o <<"=">>)]
                ELSE IF HasPrefix(option, workdirKey)
                THEN [d EXCEPT !.workdir =
                        TrimPrefix(option, workdirKey \o <<"=">>)]
                ELSE d
         IN  ParseOptions(Tail(options), next)

ParseOverlayOption(m) ==
    ParseOptions(m.Options,
                 [upperdir |-> <<>>, lowerdir |-> <<>>, workdir |-> <<>>])

----------------------------------------------------------------------------
(* package os: directories.                                                *)

\* The parent directory of a path, <<>> when it is the root or relative.
Parent(path) ==
    LET slashes == {i \in 1..Len(path) : path[i] = "/"}
        last == CHOOSE i \in slashes : \A j \in slashes : j <= i
    IN  IF slashes = {} THEN <<>> ELSE SubSeq(path, 1, last - 1)

\* os.MkdirAll(path, 0777): nothing to do when the directory exists;
\* otherwise the parents are made first and then the directory itself.
\* Directories made before a failure stay. In ds are the directories that
\* exist, in blocked the paths where no directory can be made.
RECURSIVE MkdirAll(_, _, _)
MkdirAll(path, ds, blocked) ==
    IF path \in ds THEN [ok |-> TRUE, dirs |-> ds]
    ELSE LET up == IF Parent(path) = <<>>
                   THEN [ok |-> TRUE, dirs |-> ds]
                   ELSE MkdirAll(Parent(path), ds, blocked)
         IN  IF ~up.ok THEN up
             ELSE IF path \in blocked THEN [ok |-> FALSE, dirs |-> up.dirs]
             ELSE [ok |-> TRUE, dirs |-> up.dirs \cup {path}]

----------------------------------------------------------------------------
(* externalDevice                                                          *)

\* The json tags of ExtDevice, in field order.
ExtDevice ==
    << [field |-> "Device", tag |-> <<"d","e","v","i","c","e">>],
       [field |-> "FilesystemType",
        tag |-> <<"f","s","_","t","y","p","e">>] >>

\* A descriptor file is absent (os.ReadFile fails), malformed
\* (json.Unmarshal fails) or a JSON object of string members.
NoFile == [kind |-> "absent", members |-> <<>>]
Malformed == [kind |-> "malformed", members |-> <<>>]
Object(members) == [kind |-> "object", members |-> members]

FileAt(files, path) == IF path \in DOMAIN files THEN files[path] ELSE NoFile

fsTypeDefault == <<"x","f","s">>
mountOptDefault == << <<"r","w">> >>

\* externalDevice with the descriptor's device taking precedence over
\* c.Device.
externalDeviceFileFirst(c, files) ==
    LET file == FileAt(files, c.DeviceConfig)
        ed == UnmarshalStruct(file.members, ExtDevice,
                              [Device |-> <<>>, FilesystemType |-> <<>>])
        fsType0 == IF c.DeviceConfig # <<>> /\ ed.FilesystemType # <<>>
                   THEN ed.FilesystemType ELSE fsTypeDefault
        device0 == IF c.DeviceConfig # <<>> THEN ed.Device ELSE <<>>
        fsType == IF c.DeviceFSType # <<>> THEN c.DeviceFSType ELSE fsType0
        device == IF device0 # <<>> THEN device0 ELSE c.Device
        mountOpt == IF c.DeviceMountOpts # <<>>
                    THEN Split(c.DeviceMountOpts, <<",">>)
                    ELSE mountOptDefault
    IN  IF c.DeviceConfig # <<>> /\ file.kind = "absent"
        THEN [ret |-> NilResult, err |-> "ReadFile"]
        ELSE IF c.DeviceConfig # <<>> /\ file.kind = "malformed"
        THEN [ret |-> NilResult, err |-> "Unmarshal"]
        ELSE IF device = <<>>
        THEN [ret |-> NilResult, err |-> "EmptyDevice"]
        ELSE [ret |-> Result(<<Mount(fsType, device, mountOpt)>>),
              err |-> "nil"]

externalDevice(c, files) ==
    LET file == FileAt(files, c.DeviceConfig)
        ed == UnmarshalStruct(file.members, ExtDevice,
                              [Device |-> <<>>, FilesystemType |-> <<>>])
        fsType0 == IF c.DeviceConfig # <<>> /\ ed.FilesystemType # <<>>
                   THEN ed.FilesystemType ELSE fsTypeDefault
        device0 == IF c.DeviceConfig # <<>> THEN ed.Device ELSE <<>>
        fsType == IF c.DeviceFSType # <<>> THEN c.DeviceFSType ELSE fsType0
        device == IF c.Device # <<>> THEN c.Device ELSE device0
        mountOpt == IF c.DeviceMountOpts # <<>>
                    THEN Split(c.DeviceMountOpts, <<",">>)
                    ELSE mountOptDefault
    IN  IF c.DeviceConfig # <<>> /\ file.kind = "absent"
        THEN [ret |-> NilResult, err |-> "ReadFile"]
        ELSE IF c.DeviceConfig # <<>> /\ file.kind = "malformed"
        THEN [ret |-> NilResult, err |-> "Unmarshal"]
        ELSE IF device = <<>>
        THEN [ret |-> NilResult, err |-> "EmptyDevice"]
        ELSE [ret |-> Result(<<Mount(fsType, device, mountOpt)>>),
              err |-> "nil"]

----------------------------------------------------------------------------
(* HookMounts                                                              *)

overlayType == <<"o","v","e","r","l","a","y">>
indexOff == <<"i","n","d","e","x","=","o","f","f">>

\* The overlay branch after ParseOverlayOption: the directories the new
\* mount uses, and the mount built from them.
OverlayDirs(c, m) ==
    LET d == ParseOverlayOption(m)
    IN  [upperdir |-> IF c.OverlayUpper # <<>> THEN c.OverlayUpper
                      ELSE d.upperdir,
         lowdir |-> IF c.OverlayLower # <<>> THEN c.OverlayLower
                    ELSE d.lowerdir,
         workdir |-> d.workdir]

\* NewOverlayMount without the index=off option.
NewOverlayMountNoIndex(d) ==
    Mount(overlayType, overlayType,
          << upperdirKey \o <<"=">> \o d.upperdir,
             lowerdirKey \o <<"=">> \o d.lowdir,
             workdirKey \o <<"=">> \o d.workdir >>)

NewOverlayMount(d) ==
    Mount(overlayType, overlayType,
          << upperdirKey \o <<"=">> \o d.upperdir,
             lowerdirKey \o <<"=">> \o d.lowdir,
             workdirKey \o <<"=">> \o d.workdir,
             indexOff >>)

\* UsesOverlay testing the first mount of a list of any length.
UsesOverlayAnyCount(c, ms) ==
    /\ c.Driver = ExternalRootFSDriverOverlay
    /\ Len(ms) >= 1
    /\ ms[1].Type = overlayType

\* The condition of the overlay branch.
UsesOverlay(c, ms) ==
    /\ c.Driver = ExternalRootFSDriverOverlay
    /\ Len(ms) = 1
    /\ ms[1].Type = overlayType

\* OverlayBranch going on after os.MkdirAll failed.
OverlayBranchIgnoreMkdirError(c, ms, ds, blocked) ==
    LET made == IF c.OverlayUpper # <<>>
                THEN MkdirAll(c.OverlayUpper, ds, blocked)
                ELSE [ok |-> TRUE, dirs |-> ds]
    IN  [ret |-> Result(<<NewOverlayMount(OverlayDirs(c, ms[1]))>>),
         err |-> "nil", dirs |-> made.dirs]

\* The overlay branch of both variants: the directory of a configured
\* upperdir is made before the mount is built.
OverlayBranch(c, ms, ds, blocked) ==
    LET made == IF c.OverlayUpper # <<>>
                THEN MkdirAll(c.OverlayUpper, ds, blocked)
                ELSE [ok |-> TRUE, dirs |-> ds]
    IN  IF ~made.ok
        THEN [ret |-> NilResult, err |-> "MkdirAll", dirs |-> made.dirs]
        ELSE [ret |-> Result(<<NewOverlayMount(OverlayDirs(c, ms[1]))>>),
              err |-> "nil", dirs |-> made.dirs]

\* HookMounts after a successful ReadExternalRootFSConfigFromENV.
HookMounts(c, ms, ds, blocked, files) ==
    IF UsesOverlay(c, ms) THEN OverlayBranch(c, ms, ds, blocked)
    ELSE IF c.Driver = ExternalRootFSDriverDevice
    THEN LET r == externalDevice(c, files)
         IN  [ret |-> r.ret, err |-> r.err, dirs |-> ds]
    ELSE [ret |-> Result(ms), err |-> "nil", dirs |-> ds]

\* The second variant of HookMounts, which builds the device mount itself.
HookMounts2(c, ms, ds, blocked) ==
    IF UsesOverlay(c, ms) THEN OverlayBranch(c, ms, ds, blocked)
    ELSE IF c.Driver = ExternalRootFSDriverDevice /\ c.Device # <<>>
    THEN [ret |-> Result(<<Mount(c.DeviceFSType, c.Device,
                                 mountOptDefault)>>),
          err |-> "nil", dirs |-> ds]
    ELSE [ret |-> Result(ms), err |-> "nil", dirs |-> ds]

----------------------------------------------------------------------------
(* WriteMounts                                                             *)

\* A JSON string: quotes and backslashes are escaped.
RECURSIVE Escape(_)
Escape(s) ==
    IF s = <<>> THEN <<>>
    ELSE (IF Head(s) \in {"\"", "\\"} THEN <<"\\", Head(s)>> ELSE <<Head(s)>>)
           \o Escape(Tail(s))

MarshalString(s) == <<"\"">> \o Escape(s) \o <<"\"">>

\* Encoded elements separated by commas.
RECURSIVE JoinComma(_)
JoinComma(parts) ==
    IF parts = <<>> THEN <<>>
    ELSE IF Len(parts) = 1 THEN parts[1]
    ELSE parts[1] \o <<",">> \o JoinComma(Tail(parts))

MarshalStrings(list) ==
    <<"[">> \o JoinComma([i \in DOMAIN list |-> MarshalString(list[i])])
            \o <<"]">>

\* json.Marshal of one mount.Mount: its exported fields under their names.
MarshalMount(m) ==
    <<"{">> \o MarshalString(<<"T","y","p","e">>) \o <<":">>
            \o MarshalString(m.Type) \o <<",">>
            \o MarshalString(<<"S","o","u","r","c","e">>) \o <<":">>
            \o MarshalString(m.Source) \o <<",">>
            \o MarshalString(<<"O","p","t","i","o","n","s">>) \o <<":">>
            \o MarshalStrings(m.Options) \o <<"}">>

\* json.Marshal(mounts)
MarshalMounts(ms) ==
    <<"[">> \o JoinComma([i \in DOMAIN ms |-> MarshalMount(ms[i])])
            \o <<"]">>

\* filepath.Clean for paths without "." and ".." elements: repeated
\* slashes collapse and a trailing slash goes.
RECURSIVE Clean(_)
Clean(path) ==
    IF Len(path) <= 1 THEN path
    ELSE IF path[1] = "/" /\ path[2] = "/" THEN Clean(Tail(path))
    ELSE IF Len(path) = 2 /\ path[2] = "/" THEN <<path[1]>>
    ELSE <<path[1]>> \o Clean(Tail(path))

\* filepath.Join(dir, name) for a non-empty name.
Join(dir, name) ==
    IF dir = <<>> THEN Clean(name) ELSE Clean(dir \o <<"/">> \o name)

\* A file that does not exist, and a file with data.
Missing == [exists |-> FALSE, data |-> <<>>]
File(data) == [exists |-> TRUE, data |-> data]

\* os.WriteFile(name, data, 0600) opens the file truncating it, writes and
\* closes: the open can fail (nothing changes), or the write after it
\* (the file is left truncated).
WriteFile(files, name, data, outcome) ==
    IF outcome = "open fails" THEN [files |-> files, err |-> "WriteFile"]
    ELSE IF outcome = "write fails"
    THEN [files |-> [files EXCEPT ![name] = File(<<>>)], err |-> "WriteFile"]
    ELSE [files |-> [files EXCEPT ![name] = File(data)], err |-> "nil"]

\* WriteMounts without the test for an empty list.
WriteMountsAlways(path, ms, files, outcome) ==
    LET name == Join(path, MountConfigName)
        w == WriteFile(files, name, MarshalMounts(ms), outcome)
    IN  [files |-> w.files, err |-> w.err,
         wlog |-> <<[name |-> name, failed |-> w.err # "nil"]>>]

\* wlog lists the os.WriteFile calls made: the file, and whether it failed.
WriteMounts(path, ms, files, outcome) ==
    IF Len(ms) = 0
    THEN [files |-> files, err |-> "nil", wlog |-> <<>>]
    ELSE LET name == Join(path, MountConfigName)
             w == WriteFile(files, name, MarshalMounts(ms), outcome)
         IN  [files |-> w.files, err |-> w.err,
              wlog |-> <<[name |-> name, failed |-> w.err # "nil"]>>]

----------------------------------------------------------------------------
(* The inputs the calls are made with.                                     *)

\* Sequences over S of length at most n.
SeqsUpTo(S, n) == UNION {[1..k -> S] : k \in 0..n}

Tag(field) ==
    LET i == CHOOSE j \in DOMAIN ExternalRootFSConfig :
                 ExternalRootFSConfig[j].field = field
    IN  ExternalRootFSConfig[i].tag

Entry(key, value) == key \o <<"=">> \o value

\* Environment entries for ReadExternalRootFSConfigFromENV: every known
\* key, a value with a second "=", an empty value, an entry without "=",
\* an unknown key under the prefix, a key in another letter case, and
\* entries outside the prefix.
EnvEntries ==
    { Entry(Tag("Driver"), ExternalRootFSDriverOverlay),
      Entry(Tag("Driver"), ExternalRootFSDriverDevice),
      Entry(Tag("OverlayLower"), <<"/","l">>),
      Entry(Tag("OverlayUpper"), <<"/","u">>),
      Entry(Tag("Device"), <<"/","d","e","v","/","a">>),
      Entry(Tag("Device"), <<>>),
      Entry(Tag("DeviceFSType"), <<"e","x","t","4">>),
      Entry(Tag("DeviceConfig"), <<"/","d">>),
      Entry(Tag("DeviceMountOpts"), <<"r","w",",","u","i","d","=","0">>),
      Tag("Driver"),
      Entry(ExternalRootFSPrefix \o <<"d","r","i","v","e","r">>,
            ExternalRootFSDriverDevice),
      Entry(ExternalRootFSPrefix \o <<"F","O","O">>, <<"x">>),
      Entry(<<"X">> \o Tag("Driver"), ExternalRootFSDriverDevice),
      <<"P","A","T","H","=","/","b","i","n">> }

EnvLists == SeqsUpTo(EnvEntries, MaxEnv)

\* Environments for HookMounts: each key absent or set, in the
\* combinations that reach the three branches.
Maybe(field, value) == {<<>>, <<Entry(Tag(field), value)>>}

OverlayEnvs ==
    { <<Entry(Tag("Driver"), ExternalRootFSDriverOverlay)>> \o l \o u \o n :
        l \in Maybe("OverlayLower", <<"/","l">>),
        u \in Maybe("OverlayUpper", <<"/","u","/","x">>),
        n \in Maybe("Device", <<"/","d","e","v","/","b">>) }

DeviceEnvs ==
    { <<Entry(Tag("Driver"), ExternalRootFSDriverDevice)>>
        \o n \o t \o c \o o :
        n \in Maybe("Device", <<"/","d","e","v","/","b">>),
        t \in Maybe("DeviceFSType", <<"e","x","t","4">>),
        c \in Maybe("DeviceConfig", <<"/","d">>),
        o \in Maybe("DeviceMountOpts",
                    <<"r","o",",","n","o","a","t","i","m","e">>) }

OtherEnvs ==
    { d \o u \o n :
        d \in Maybe("Driver", <<"z","f","s">>),
        u \in Maybe("OverlayUpper", <<"/","u","/","x">>),
        n \in Maybe("Device", <<"/","d","e","v","/","b">>) }

HookEnvs == OverlayEnvs \cup DeviceEnvs \cup OtherEnvs

\* The caller's mounts: an overlay mount as the snapshotter prepares it,
\* with an option HookMounts does not carry over, and a bind mount.
OverlayMount ==
    Mount(overlayType, overlayType,
          << <<"l","o","w","e","r","d","i","r","=","/","b">>,
             <<"r","o">>,
             <<"u","p","p","e","r","d","i","r","=","/","a">>,
             <<"w","o","r","k","d","i","r","=","/","c">> >>)

BindMount ==
    Mount(<<"b","i","n","d">>, <<"/","r","u","n">>, << <<"r","o">> >>)

MountLists == SeqsUpTo({OverlayMount, BindMount}, MaxMounts)

\* Option strings for ParseOverlayOption: the three directories, a second
\* upperdir, unrelated options, a value with a second "=", an empty value,
\* and options that begin with a directory key without being "key=value".
OptionSamples ==
    { <<"u","p","p","e","r","d","i","r","=","/","a">>,
      <<"u","p","p","e","r","d","i","r","=","/","x">>,
      <<"l","o","w","e","r","d","i","r","=","/","b">>,
      <<"w","o","r","k","d","i","r","=","/","c">>,
      <<"w","o","r","k","d","i","r","=","/","c","=","d">>,
      <<"l","o","w","e","r","d","i","r","=">>,
      <<"r","o">>,
      indexOff,
      upperdirKey,
      <<"u","p","p","e","r","d","i","r","s","=","/","a">> }

OptionLists == SeqsUpTo(OptionSamples, MaxOptions)

\* Device descriptor files: none, not JSON, and objects with either
\* member missing or empty, or with a key in another letter case.
DescriptorPath == <<"/","d">>

Member(key, value) == [key |-> key, value |-> value]

DescriptorFiles ==
    { NoFile, Malformed, Object(<<>>),
      Object(<<Member(ExtDevice[1].tag, <<"/","d","e","v","/","a">>),
               Member(ExtDevice[2].tag, <<>>)>>),
      Object(<<Member(ExtDevice[1].tag, <<"/","d","e","v","/","a">>),
               Member(ExtDevice[2].tag, <<"b","t","r","f","s">>)>>),
      Object(<<Member(ExtDevice[2].tag, <<"b","t","r","f","s">>)>>),
      Object(<<Member(<<"D","e","v","i","c","e">>,
                      <<"/","d","e","v","/","a">>)>>) }

\* The descriptor files the resolver meets.
HookDescriptorFiles ==
    { NoFile,
      Object(<<Member(ExtDevice[1].tag, <<"/","d","e","v","/","a">>),
               Member(ExtDevice[2].tag, <<"b","t","r","f","s">>)>>),
      Object(<<Member(ExtDevice[2].tag, <<"b","t","r","f","s">>)>>) }

\* Configurations externalDevice is called with.
DeviceConfigs ==
    { [ZeroConfig EXCEPT !.Driver = ExternalRootFSDriverDevice,
                         !.Device = n, !.DeviceFSType = t,
                         !.DeviceConfig = c, !.DeviceMountOpts = o] :
        n \in {<<>>, <<"/","d","e","v","/","b">>},
        t \in {<<>>, <<"e","x","t","4">>},
        c \in {<<>>, DescriptorPath},
        o \in {<<>>, <<"r","w">>, <<"r","o",",","n","o","a","t","i","m","e">>,
               <<"r","w",",">>} }

\* Directories of the model, and the arguments of WriteMounts.
UpperDir == <<"/","u","/","x">>

WritePaths == {<<"/","a">>, <<"/","a","/">>, <<"/","b">>}
SnapshotFiles == {Join(p, MountConfigName) : p \in WritePaths}
WriteMountLists == SeqsUpTo({OverlayMount, BindMount}, MaxWriteMounts)

\* What an earlier call left in a mounts.json.
OldSnapshot == MarshalMounts(<<BindMount>>)

----------------------------------------------------------------------------
(* The state machine. Every call is made once per container with the     *)
(* arguments and the files it finds, so the initial states draw them; an   *)
(* action is one call of a function on them, and calls may repeat.         *)

\* No call has been made, and nothing is returned yet.
NoCall ==
    /\ op = "none"
    /\ configMap = EmptyMap
    /\ parsed = [upperdir |-> <<>>, lowerdir |-> <<>>, workdir |-> <<>>]
    /\ ret = NilResult
    /\ err = "nil"
    /\ wlog = <<>>

\* HookMounts: the caller's mounts, the OCI spec file and the filesystem.
Init ==
    /\ NoCall
    /\ cfg = ZeroConfig
    /\ mounts \in MountLists
    /\ env \in HookEnvs
    /\ specOK \in BOOLEAN
    /\ dirs \in {{}, {Parent(UpperDir)}}
    /\ nodir \in {{}, {UpperDir}, {Parent(UpperDir)}}
    /\ descriptor \in [{DescriptorPath} -> HookDescriptorFiles]
    /\ snapshots = [f \in SnapshotFiles |-> Missing]
    /\ wpath = <<>>

InitEnv ==
    /\ NoCall
    /\ cfg = ZeroConfig
    /\ mounts = <<>>
    /\ env \in EnvLists
    /\ specOK \in BOOLEAN
    /\ dirs = {}
    /\ nodir = {}
    /\ descriptor = [f \in {DescriptorPath} |-> NoFile]
    /\ snapshots = [f \in SnapshotFiles |-> Missing]
    /\ wpath = <<>>

InitParse ==
    /\ NoCall
    /\ cfg = ZeroConfig
    /\ mounts \in {<<Mount(overlayType, overlayType, options)>> :
                      options \in OptionLists}
    /\ env = <<>>
    /\ specOK = TRUE
    /\ dirs = {}
    /\ nodir = {}
    /\ descriptor = [f \in {DescriptorPath} |-> NoFile]
    /\ snapshots = [f \in SnapshotFiles |-> Missing]
    /\ wpath = <<>>

InitDevice ==
    /\ NoCall
    /\ cfg \in DeviceConfigs
    /\ mounts = <<>>
    /\ env = <<>>
    /\ specOK = TRUE
    /\ dirs = {}
    /\ nodir = {}
    /\ descriptor \in [{DescriptorPath} -> DescriptorFiles]
    /\ snapshots = [f \in SnapshotFiles |-> Missing]
    /\ wpath = <<>>

InitWrite ==
    /\ NoCall
    /\ cfg = ZeroConfig
    /\ mounts \in WriteMountLists
    /\ env = <<>>
    /\ specOK = TRUE
    /\ dirs = {}
    /\ nodir = {}
    /\ descriptor = [f \in {DescriptorPath} |-> NoFile]
    /\ snapshots \in [SnapshotFiles -> {Missing, File(OldSnapshot)}]
    /\ wpath \in WritePaths

CallReadExternalRootFSConfigFromENV ==
    /\ op' = "ReadExternalRootFSConfigFromENV"
    /\ configMap' = IF specOK THEN EnvConfigMap(env, EmptyMap) ELSE EmptyMap
    /\ cfg' = IF specOK THEN ReadExternalRootFSConfigFromENV(env)
              ELSE ZeroConfig
    /\ err' = IF specOK THEN "nil" ELSE "ReadSpec"
    /\ UNCHANGED <<env, specOK, mounts, parsed, ret, dirs, nodir, descriptor,
                   snapshots, wpath, wlog>>

CallParseOverlayOption ==
    /\ op' = "ParseOverlayOption"
    /\ parsed' = ParseOverlayOption(mounts[1])
    /\ UNCHANGED <<env, specOK, mounts, configMap, cfg, ret, err, dirs, nodir,
                   descriptor, snapshots, wpath, wlog>>

CallexternalDevice ==
    LET r == externalDevice(cfg, descriptor)
    IN  /\ op' = "externalDevice"
        /\ ret' = r.ret
        /\ err' = r.err
        /\ UNCHANGED <<env, specOK, mounts, configMap, cfg, parsed, dirs,
                       nodir, descriptor, snapshots, wpath, wlog>>

CallHookMounts ==
    LET c == ReadExternalRootFSConfigFromENV(env)
        r == HookMounts(c, mounts, dirs, nodir, descriptor)
    IN  /\ op' = "HookMounts"
        /\ configMap' = IF specOK THEN EnvConfigMap(env, EmptyMap)
                        ELSE EmptyMap
        /\ cfg' = IF specOK THEN c ELSE ZeroConfig
        /\ ret' = IF specOK THEN r.ret ELSE NilResult
        /\ err' = IF specOK THEN r.err ELSE "ReadSpec"
        /\ dirs' = IF specOK THEN r.dirs ELSE dirs
        /\ UNCHANGED <<env, specOK, mounts, parsed, nodir, descriptor,
                       snapshots, wpath, wlog>>

CallHookMounts2 ==
    LET c == ReadExternalRootFSConfigFromENV2(env)
        r == HookMounts2(c, mounts, dirs, nodir)
    IN  /\ op' = "HookMounts2"
        /\ configMap' = IF specOK THEN EnvConfigMap(env, EmptyMap)
                        ELSE EmptyMap
        /\ cfg' = IF specOK THEN c ELSE ZeroConfig
        /\ ret' = IF specOK THEN r.ret ELSE NilResult
        /\ err' = IF specOK THEN r.err ELSE "ReadSpec"
        /\ dirs' = IF specOK THEN r.dirs ELSE dirs
        /\ UNCHANGED <<env, specOK, mounts, parsed, nodir, descriptor,
                       snapshots, wpath, wlog>>

CallWriteMounts(outcome) ==
    LET r == WriteMounts(wpath, mounts, snapshots, outcome)
    IN  /\ op' = "WriteMounts"
        /\ snapshots' = r.files
        /\ err' = r.err
        /\ wlog' = r.wlog
        /\ UNCHANGED <<env, specOK, mounts, configMap, cfg, parsed, ret, dirs,
                       nodir, descriptor, wpath>>

\* The mount resolver, in both variants of the file.
Next ==
    \/ CallHookMounts
    \/ CallHookMounts2

Spec == Init /\ [][Next]_vars

NextEnv == CallReadExternalRootFSConfigFromENV

SpecEnv == InitEnv /\ [][NextEnv]_vars

NextParse == CallParseOverlayOption

SpecParse == InitParse /\ [][NextParse]_vars

NextDevice == CallexternalDevice

SpecDevice == InitDevice /\ [][NextDevice]_vars

NextWrite ==
    \E outcome \in {"ok", "open fails", "write fails"} :
        CallWriteMounts(outcome)

SpecWrite == InitWrite /\ [][NextWrite]_vars

----------------------------------------------------------------------------
(* The claims.                                                             *)

\* The text after the first "=" of s (s has one).
AfterFirstEq(s) == SubSeq(s, Index(s, <<"=">>) + 1, Len(s))

\* The text before the first "=" of s, all of s when it has none.
BeforeFirstEq(s) ==
    IF Index(s, <<"=">>) = 0 THEN s ELSE SubSeq(s, 1, Index(s, <<"=">>) - 1)

\* The configuration asks for the overlay driver and the caller gave
\* exactly one mount, of type "overlay".
OneOverlayMount(c, ms) ==
    /\ c.Driver = <<"o","v","e","r","l","a","y">>
    /\ Len(ms) = 1
    /\ ms[1].Type = <<"o","v","e","r","l","a","y">>

DeviceDriver(c) == c.Driver = <<"d","e","v","i","c","e">>

\* C1. Pass-through: when the configuration was read, the driver is not
\* "device" and it is not the case that the driver is "overlay" with exactly
\* one mount of type "overlay", HookMounts returns the caller's mount list,
\* the same elements in the same order, and no error.
C1_PassThrough ==
    (/\ op \in {"HookMounts", "HookMounts2"}
     /\ specOK
     /\ ~DeviceDriver(cfg)
     /\ ~OneOverlayMount(cfg, mounts))
    => (ret = Result(mounts) /\ err = "nil")

\* C1's case: the overlay driver with two mounts, the first of them an
\* overlay mount, and an unset driver with a single bind mount.
C1_Witness ==
    /\ op = "HookMounts"
    /\ specOK
    /\ cfg.Driver = <<"o","v","e","r","l","a","y">>
    /\ mounts = <<OverlayMount, BindMount>>
    /\ ret = Result(<<OverlayMount, BindMount>>)
    /\ err = "nil"

\* C2. Overlay override: with the overlay driver, exactly one caller mount
\* of type "overlay" and no failure creating the upper directory, HookMounts
\* returns no error and exactly one mount of type "overlay" and source
\* "overlay" whose options are upperdir=<upper>, lowerdir=<lower>,
\* workdir=<work>, index=off in that order: <upper> and <lower> are the
\* configured paths when non-empty and else those parsed from the caller's
\* mount, <work> is always the parsed one, and no other option is kept.
C2_OverlayOverride ==
    [][(/\ op' = "HookMounts"
        /\ specOK
        /\ OneOverlayMount(cfg', mounts)
        /\ \/ cfg'.OverlayUpper = <<>>
           \/ MkdirAll(cfg'.OverlayUpper, dirs, nodir).ok)
       => LET d == ParseOverlayOption(mounts[1])
              upper == IF cfg'.OverlayUpper # <<>> THEN cfg'.OverlayUpper
                       ELSE d.upperdir
              lower == IF cfg'.OverlayLower # <<>> THEN cfg'.OverlayLower
                       ELSE d.lowerdir
          IN  /\ err' = "nil"
              /\ ret' = Result(<<
                   [Type |-> <<"o","v","e","r","l","a","y">>,
                    Source |-> <<"o","v","e","r","l","a","y">>,
                    Options |->
                      << <<"u","p","p","e","r","d","i","r","=">> \o upper,
                         <<"l","o","w","e","r","d","i","r","=">> \o lower,
                         <<"w","o","r","k","d","i","r","=">> \o d.workdir,
                         <<"i","n","d","e","x","=","o","f","f">> >>] >>)]_vars

\* C2's case: the caller's overlay mount (lowerdir=/b, ro, upperdir=/a,
\* workdir=/c) resolved with only the upper path configured, as /u/x.
C2_Witness ==
    /\ op = "HookMounts"
    /\ cfg.OverlayUpper = <<"/","u","/","x">>
    /\ cfg.OverlayLower = <<>>
    /\ mounts = <<OverlayMount>>
    /\ err = "nil"
    /\ ret = Result(<<
         [Type |-> <<"o","v","e","r","l","a","y">>,
          Source |-> <<"o","v","e","r","l","a","y">>,
          Options |->
            << <<"u","p","p","e","r","d","i","r","=","/","u","/","x">>,
               <<"l","o","w","e","r","d","i","r","=","/","b">>,
               <<"w","o","r","k","d","i","r","=","/","c">>,
               <<"i","n","d","e","x","=","o","f","f">> >>] >>)

\* The descriptor file externalDevice loads, decoded.
LoadedDescriptor ==
    UnmarshalStruct(FileAt(descriptor, cfg.DeviceConfig).members, ExtDevice,
                    [Device |-> <<>>, FilesystemType |-> <<>>])

DescriptorLoaded ==
    /\ cfg.DeviceConfig # <<>>
    /\ FileAt(descriptor, cfg.DeviceConfig).kind = "object"

\* C3. Device precedence: a successful externalDevice returns exactly one
\* mount; its type is cfg.DeviceFSType if non-empty, else the descriptor's
\* fs_type if a descriptor was loaded and its fs_type is non-empty, else
\* "xfs"; its source is cfg.Device if non-empty, else the descriptor's
\* device; its options are cfg.DeviceMountOpts split on "," if non-empty,
\* else exactly ["rw"].
C3_DevicePrecedence ==
    (op = "externalDevice" /\ err = "nil")
    => /\ ~ret.nil
       /\ Len(ret.list) = 1
       /\ ret.list[1].Type =
            IF cfg.DeviceFSType # <<>> THEN cfg.DeviceFSType
            ELSE IF DescriptorLoaded /\ LoadedDescriptor.FilesystemType # <<>>
            THEN LoadedDescriptor.FilesystemType
            ELSE <<"x","f","s">>
       /\ ret.list[1].Source =
            IF cfg.Device # <<>> THEN cfg.Device
            ELSE LoadedDescriptor.Device
       /\ ret.list[1].Options =
            IF cfg.DeviceMountOpts # <<>>
            THEN Split(cfg.DeviceMountOpts, <<",">>)
            ELSE << <<"r","w">> >>

\* C3's case: descriptor device "/dev/a" and fs_type "", cfg.Device "" and
\* cfg.DeviceFSType "ext4" resolve to {ext4, /dev/a, [rw]}.
C3_Witness ==
    /\ op = "externalDevice"
    /\ cfg.Device = <<>>
    /\ cfg.DeviceFSType = <<"e","x","t","4">>
    /\ cfg.DeviceMountOpts = <<>>
    /\ DescriptorLoaded
    /\ LoadedDescriptor =
         [Device |-> <<"/","d","e","v","/","a">>, FilesystemType |-> <<>>]
    /\ err = "nil"
    /\ ret = Result(<< [Type |-> <<"e","x","t","4">>,
                        Source |-> <<"/","d","e","v","/","a">>,
                        Options |-> << <<"r","w">> >>] >>)

\* C10. Upper-directory side effect and fail-fast: HookMounts creates a
\* directory only in the overlay branch and only when cfg.OverlayUpper is
\* non-empty; that directory exists after a successful return; when its
\* creation fails the call returns an error; and every call that returns
\* an error returns no mount list.
C10_UpperDirAndFailFast ==
    [][op' \in {"HookMounts", "HookMounts2"}
       => LET overlay == specOK /\ OneOverlayMount(cfg', mounts)
                           /\ cfg'.OverlayUpper # <<>>
          IN  /\ dirs' # dirs => overlay
              /\ (overlay /\ err' = "nil") => cfg'.OverlayUpper \in dirs'
              /\ (overlay /\ ~MkdirAll(cfg'.OverlayUpper, dirs, nodir).ok)
                   => err' # "nil"
              /\ err' # "nil" => ret'.nil]_vars

\* C10's case: the configured upper directory /u/x could not be created
\* (its parent /u could), and the call returned an error and no mounts.
C10_Witness ==
    /\ op = "HookMounts"
    /\ OneOverlayMount(cfg, mounts)
    /\ cfg.OverlayUpper = UpperDir
    /\ UpperDir \in nodir
    /\ Parent(UpperDir) \in dirs
    /\ UpperDir \notin dirs
    /\ err = "MkdirAll"
    /\ ret.nil

\* C10's other case: a successful call created /u/x.
C10_WitnessCreated ==
    /\ op = "HookMounts"
    /\ OneOverlayMount(cfg, mounts)
    /\ cfg.OverlayUpper = UpperDir
    /\ err = "nil"
    /\ ~ret.nil
    /\ UpperDir \in dirs

\* C9. Snapshot writer: WriteMounts with an empty mount list writes no
\* file, leaves every mounts.json as it was and returns no error; with a
\* non-empty list it makes exactly one write, to <path>/mounts.json, which
\* on success replaces the file's content by the serialization of the list
\* and leaves the other files alone, and it returns an error exactly when
\* that write fails.
C9_SnapshotWriter ==
    [][op' = "WriteMounts"
       => IF Len(mounts) = 0
          THEN /\ wlog' = <<>>
               /\ snapshots' = snapshots
               /\ err' = "nil"
          ELSE LET name == Join(wpath, <<"m","o","u","n","t","s",".",
                                        "j","s","o","n">>)
               IN  /\ Len(wlog') = 1
                   /\ wlog'[1].name = name
                   /\ (err' # "nil") = wlog'[1].failed
                   /\ \A f \in DOMAIN snapshots \ {name} :
                         snapshots'[f] = snapshots[f]
                   /\ err' = "nil"
                        => snapshots'[name] = File(MarshalMounts(mounts))]_vars

\* C9's case: an empty list was written to a directory whose mounts.json
\* holds an earlier snapshot, which is still there.
C9_Witness ==
    /\ op = "WriteMounts"
    /\ mounts = <<>>
    /\ wlog = <<>>
    /\ err = "nil"
    /\ snapshots[Join(wpath, MountConfigName)] = File(OldSnapshot)

\* C9's other case: a list of two mounts replaced an earlier snapshot.
C9_WitnessReplaced ==
    /\ op = "WriteMounts"
    /\ mounts = <<OverlayMount, BindMount>>
    /\ wpath = <<"/","a","/">>
    /\ Len(wlog) = 1
    /\ wlog[1].name = <<"/","a","/">> \o MountConfigName
    /\ err = "nil"
    /\ snapshots[<<"/","a","/">> \o MountConfigName].data
         = MarshalMounts(<<OverlayMount, BindMount>>)
    /\ snapshots[<<"/","b","/">> \o MountConfigName] = File(OldSnapshot)

\* The configuration the layered variant decodes from the environment.
LayeredConfig == ReadExternalRootFSConfigFromENV(env)

\* Neither cfg.Device nor the descriptor named by cfg.DeviceConfig gives a
\* device: no descriptor is configured, or the one loaded has none.
NoDeviceResolved ==
    /\ LayeredConfig.Device = <<>>
    /\ \/ LayeredConfig.DeviceConfig = <<>>
       \/ /\ FileAt(descriptor, LayeredConfig.DeviceConfig).kind = "object"
          /\ UnmarshalStruct(
                FileAt(descriptor, LayeredConfig.DeviceConfig).members,
                ExtDevice,
                [Device |-> <<>>, FilesystemType |-> <<>>]).Device = <<>>

\* C4. Missing device is a fatal error: whenever the driver is "device" and
\* neither cfg.Device nor the descriptor file yields a non-empty device,
\* HookMounts fails with the missing-device error and returns no mount list,
\* whatever mounts the caller gave; it never returns the caller's mounts.
C4_MissingDeviceIsFatal ==
    (/\ op \in {"HookMounts", "HookMounts2"}
     /\ specOK
     /\ DeviceDriver(LayeredConfig)
     /\ NoDeviceResolved)
    => (err = "EmptyDevice" /\ ret.nil)

\* C4 of the layered variant alone (HookMounts with externalDevice).
C4_LayeredVariant ==
    (/\ op = "HookMounts"
     /\ specOK
     /\ DeviceDriver(LayeredConfig)
     /\ NoDeviceResolved)
    => (err = "EmptyDevice" /\ ret.nil)

\* C5. Variant equivalence: for every caller mount list and every
\* configuration in which DeviceConfig and DeviceMountOpts are both empty,
\* the second variant of HookMounts returns the mount list and the error
\* that the layered variant returns on the same input, for every value of
\* the driver, the device and the filesystem type.
C5_VariantEquivalence ==
    [][(/\ op' = "HookMounts2"
        /\ specOK
        /\ LayeredConfig.DeviceConfig = <<>>
        /\ LayeredConfig.DeviceMountOpts = <<>>)
       => LET r == HookMounts(LayeredConfig, mounts, dirs, nodir, descriptor)
          IN  /\ ret' = r.ret
              /\ err' = r.err
              /\ dirs' = r.dirs]_vars

\* C5 where the variants do agree: the driver is not "device", or the
\* device and the filesystem type are both configured.
C5_AgreeOutsideDeviceDefaults ==
    [][(/\ op' = "HookMounts2"
        /\ specOK
        /\ LayeredConfig.DeviceConfig = <<>>
        /\ LayeredConfig.DeviceMountOpts = <<>>
        /\ \/ ~DeviceDriver(LayeredConfig)
           \/ /\ LayeredConfig.Device # <<>>
              /\ LayeredConfig.DeviceFSType # <<>>)
       => LET r == HookMounts(LayeredConfig, mounts, dirs, nodir, descriptor)
          IN  /\ ret' = r.ret
              /\ err' = r.err
              /\ dirs' = r.dirs]_vars

\* The entries of the environment that ReadExternalRootFSConfigFromENV
\* keeps: under the prefix and with an "=".
Kept(e) == HasPrefix(e, ExternalRootFSPrefix) /\ Index(e, <<"=">>) > 0

\* C6. Environment entry splitting: every entry under the prefix is split
\* at its first "=" only, the key being the text before it and the stored
\* value all the text after it, further "=" included; an entry without "="
\* is dropped; when a key repeats, the last entry with it wins.
C6_EntrySplitting ==
    (op = "ReadExternalRootFSConfigFromENV" /\ specOK)
    => /\ err = "nil"
       /\ DOMAIN configMap =
            {BeforeFirstEq(env[i]) : i \in {j \in DOMAIN env : Kept(env[j])}}
       /\ \A i \in DOMAIN env :
            (/\ Kept(env[i])
             /\ \A j \in DOMAIN env :
                  (j > i /\ Kept(env[j]))
                    => BeforeFirstEq(env[j]) # BeforeFirstEq(env[i]))
            => configMap[BeforeFirstEq(env[i])] = AfterFirstEq(env[i])

\* The keys of the seven fields.
RecognizedKeys ==
    {ExternalRootFSConfig[i].tag : i \in DOMAIN ExternalRootFSConfig}

HasRecognizedKey(e) == BeforeFirstEq(e) \in RecognizedKeys

\* C7. Prefix isolation and unknown keys: a field of the configuration is
\* set only by an entry whose key is exactly one of the seven recognized
\* keys; entries whose key lacks the prefix, or has it without being one of
\* the seven (a key in another letter case, say), change no field, so the
\* configuration is the one read from the recognized entries alone, and
\* they cause no error.
C7_PrefixIsolation ==
    (op = "ReadExternalRootFSConfigFromENV" /\ specOK)
    => /\ err = "nil"
       /\ cfg = ReadExternalRootFSConfigFromENV(
                   SelectSeq(env, HasRecognizedKey))
       /\ \A i \in DOMAIN ExternalRootFSConfig :
            cfg[ExternalRootFSConfig[i].field] # <<>>
              => \E j \in DOMAIN env :
                    BeforeFirstEq(env[j]) = ExternalRootFSConfig[i].tag

\* C7 without the keys that differ from a recognized key in letter case
\* only: when the environment has none, the rest of the claim holds.
C7_WithoutCaseVariants ==
    (/\ op = "ReadExternalRootFSConfigFromENV"
     /\ specOK
     /\ \A j \in DOMAIN env :
          \/ HasRecognizedKey(env[j])
          \/ \A k \in RecognizedKeys : ~EqualFold(BeforeFirstEq(env[j]), k))
    => /\ err = "nil"
       /\ cfg = ReadExternalRootFSConfigFromENV(
                   SelectSeq(env, HasRecognizedKey))

\* The options of the parsed mount that start with a key.
WithPrefix(key) ==
    {i \in DOMAIN mounts[1].Options : HasPrefix(mounts[1].Options[i], key)}

\* What C8 says ParseOverlayOption returns for a key, given what it
\* returned (got): "" when no option starts with the key, else the text
\* after the first "=" of the last option that does. An option that starts
\* with the key and has no "=" at all is left open.
AsClaimed(key, got) ==
    IF WithPrefix(key) = {} THEN got = <<>>
    ELSE LET last == CHOOSE i \in WithPrefix(key) :
                        \A j \in WithPrefix(key) : j <= i
             option == mounts[1].Options[last]
         IN  Index(option, <<"=">>) > 0 => got = AfterFirstEq(option)

\* C8. Overlay option parsing: for every option list ParseOverlayOption
\* returns, for each of upper, lower and work, the text after the first "="
\* of the last option that starts with "upperdir", "lowerdir" or "workdir",
\* and the empty string when no option starts with it.
C8_OptionParsing ==
    op = "ParseOverlayOption"
    => /\ AsClaimed(<<"u","p","p","e","r","d","i","r">>, parsed.upperdir)
       /\ AsClaimed(<<"l","o","w","e","r","d","i","r">>, parsed.lowerdir)
       /\ AsClaimed(<<"w","o","r","k","d","i","r">>, parsed.workdir)

\* C8 for option lists in which every option that starts with a key starts
\* with "key=": there the claim holds.
C8_WellFormedOptions ==
    (/\ op = "ParseOverlayOption"
     /\ \A key \in {upperdirKey, lowerdirKey, workdirKey} :
          \A i \in WithPrefix(key) :
             HasPrefix(mounts[1].Options[i], key \o <<"=">>))
    => /\ AsClaimed(upperdirKey, parsed.upperdir)
       /\ AsClaimed(lowerdirKey, parsed.lowerdir)
       /\ AsClaimed(workdirKey, parsed.workdir)

============================================================================
